---- MODULE Spec2Model ----
(***************************************************************************)
(* Model of the notebook soap_gap_tutorial_si_surface.ipynb: a Si slab is  *)
(* built, molecular dynamics is run with a tight-binding potential while   *)
(* observers print and collect snapshots, descriptors are evaluated, three *)
(* GAP potentials are fitted by the external teach_sparse command and      *)
(* compared to the reference, and the last one drives MD and a geometry    *)
(* optimisation.                                                           *)
(*                                                                         *)
(* Lengths are integers in units of 0.01 Angstrom.  Python objects live in *)
(* `heap`, keyed by object identity, so that aliasing and copying differ.  *)
(* Positions and velocities of a configuration are abstracted to version   *)
(* numbers: every integrator or optimiser update yields a fresh version.   *)
(* An energy is the pair (potential, positions it was computed for).       *)
(***************************************************************************)
EXTENDS Integers, Sequences, FiniteSets, TLC

VARIABLES
    pc,          \* the cell (and loop position) the notebook is executing
    err,         \* "none", or the exception that stopped the notebook
    size,        \* build_slab argument `size`
    vacuum,      \* build_slab argument `vacuum`
    slab,        \* what build_slab produced (geometry of the configuration)
    heap,        \* object identity -> Atoms object
    a,           \* the Python name `a` (object identity, 0 when unbound)
    optatoms,    \* the Python name `optatoms` (identity, 0 when unbound)
    db,          \* the list `db`: identities of the collected snapshots
    dbSteps,     \* history: dynamics.nsteps at which each db entry was appended
    dynamics,    \* the Python name `dynamics`: the current engine
    lastCalls,   \* history: observer calls made by the latest engine step
    run,         \* history: the run in progress (nsteps at its start, steps asked)
    files,       \* fitted-potential files on disk
    fitStatus,   \* history: how each teach_sparse invocation ended
    pots,        \* the Python names gap2b, gap3b, gap_soap: what was loaded
    energies,    \* the lists qm_energies, gap2b_energies, gap3b_energies, gap_energies
    Natoms,      \* the Python name `Natoms` (0 when unbound)
    rmse,        \* outcome of each RMSE expression
    consumed,    \* history: every use of neighbour connectivity by a consumer
    tbCutoff,    \* cutoff of the tight-binding potential (read from params.xml)
    optSteps,    \* iterations done by the optimiser
    E0,          \* the Python name `E0` (0 when unbound)
    fitE0        \* history: the e0 argument of each teach_sparse invocation (0: not run)

vars == <<pc, err, size, vacuum, slab, heap, a, optatoms, db, dbSteps, dynamics,
          lastCalls, run, files, fitStatus, pots, energies, Natoms, rmse,
          consumed, tbCutoff, optSteps, E0, fitE0>>

(***************************************************************************)
(* Bounds of the model                                                     *)
(***************************************************************************)
MaxSize == 2
MaxOptSteps == 3
MaxCmpDb == 3

(***************************************************************************)
(* Program constants                                                       *)
(***************************************************************************)
LatticeConstant == 544
FixTolerance == 200
DefaultVacuum == 1000
Steps1 == 100
Steps2 == 500
Steps3 == 100
StatusInterval == 10
EnergyInterval == 1
CollectInterval == 10
EnergyInterval2 == 10
Desc2bCutoff == 400
SoapCutoff == 400
Gap2bCutoff == 500
Gap3bCutoff == 400
GapSoapCutoff == 400
E0Literal == -29716948

DefaultSize == <<1, 2, 2>>

Max(x, y) == IF x >= y THEN x ELSE y
Abs(x) == IF x < 0 THEN -x ELSE x
SetMin(S) == CHOOSE x \in S : \A y \in S : x <= y

\* Object identities of the named Python objects; snapshots get SnapBase + i.
ATOMS == 1
ISOLATED == 2
SnapBase == 10
EvalBase == 1000

(***************************************************************************)
(* build_slab                                                              *)
(***************************************************************************)
\* z coordinate (in quarter lattice constants) of the 8 atoms of the
\* conventional diamond cell: fcc sites, then the same shifted by 1/4.
BasisZ == <<0, 0, 2, 2, 1, 1, 3, 3>>

\* Diamond('Si', latticeconstant=5.44, size=size): the z coordinate of every
\* atom, 8 atoms per replicated cell; the cell index along z runs fastest.
DiamondZ(sz) ==
    LET n == 8 * sz[1] * sz[2] * sz[3]
    IN  [i \in 1..n |->
            LET cell == (i - 1) \div 8
                b    == ((i - 1) % 8) + 1
                k    == cell % sz[3]
            IN  LatticeConstant * k + (LatticeConstant * BasisZ[b]) \div 4]

\* The lattice builder refuses a non-positive number of unit cells, and
\* cannot concatenate zero repetitions along an axis.
DiamondFails(sz) == \E d \in 1..3 : sz[d] <= 0

FixedMaskTolMutant(z) ==
    LET bottom == SetMin({z[i] : i \in DOMAIN z})
    IN  {i \in DOMAIN z : Abs(z[i] - bottom) < 100}

\* bottom = atoms.positions[:,2].min();
\* fixed_mask = (abs(atoms.positions[:,2] - bottom) < 2.0)
FixedMask(z) ==
    LET bottom == SetMin({z[i] : i \in DOMAIN z})
    IN  {i \in DOMAIN z : Abs(z[i] - bottom) < FixTolerance}

\* add_vacuum(atoms, vacuum): the cell is lengthened along z (the cell is
\* orthogonal, so the new length is length + vacuum); nothing is validated
\* and positions and constraints are left alone.
AddVacuum(s, vac) == [s EXCEPT !.cellz = s.cellz + vac]

NoSlab == [status |-> "none", z |-> <<>>, fixed |-> {}, cellz |-> 0]

\* The value build_slab(size, vacuum) returns, or the exception it raises.
BuildSlab(sz, vac) ==
    IF DiamondFails(sz)
    THEN [NoSlab EXCEPT !.status = "ValueError"]
    ELSE LET z == DiamondZ(sz)
             lattice == [status |-> "built", z |-> z, fixed |-> FixedMask(z),
                         cellz |-> LatticeConstant * sz[3]]
         IN  AddVacuum(lattice, vac)


(***************************************************************************)
(* Atoms objects, potentials and neighbour connectivity                    *)
(***************************************************************************)
NoCalc == [file |-> "none", content |-> "none"]
NoEnergy == [pot |-> NoCalc, pos |-> -1]
NoConn == [pos |-> -1, cutoff |-> 0]

TB == "TB DFTB"
Gap2bFile == "gap_2b.xml"
Gap3bFile == "gap_3b.xml"
GapSoapFile == "gap_2b3bsoap.xml"
GapFiles == {Gap2bFile, Gap3bFile, GapSoapFile}

\* A potential loaded from a fitted file remembers which content it read.
GapPot(file, content) == [file |-> file, content |-> content]
TBPot == [file |-> TB, content |-> "params"]

\* Largest cutoff among the descriptors the potential was fitted with.
FitCutoff(file) ==
    CASE file = Gap2bFile -> Gap2bCutoff
      [] file = Gap3bFile -> Max(Gap2bCutoff, Gap3bCutoff)
      [] file = GapSoapFile -> Max(Gap2bCutoff, Max(Gap3bCutoff, GapSoapCutoff))

PotCutoff(pot) == IF pot.file = TB THEN tbCutoff ELSE FitCutoff(pot.file)

\* Atoms(lattice): a configuration of n Si atoms, at rest, with no calculator.
NewAtoms(n, nfixed) ==
    [n |-> n, Z |-> 14, pos |-> 0, vel |-> 0, nfixed |-> nfixed,
     calc |-> NoCalc, energy |-> NoEnergy, forces |-> NoEnergy,
     cutoff |-> 0, conn |-> NoConn]

CopyAtomsFreeOnlyMutant(o) ==
    [o EXCEPT !.calc = NoCalc, !.conn = NoConn, !.n = o.n - o.nfixed]

\* Atoms.copy(): species, positions, velocities, constraints, cutoff and the
\* stored results are copied; the calculator and the connectivity are not.
CopyAtoms(o) == [o EXCEPT !.calc = NoCalc, !.conn = NoConn]

\* What a snapshot must keep: species, positions, velocities, stored energy.
Content(o) == [n |-> o.n, Z |-> o.Z, pos |-> o.pos, vel |-> o.vel,
               energy |-> o.energy]

\* atoms.set_cutoff(c): only the cutoff is stored.
SetCutoff(o, c) == [o EXCEPT !.cutoff = c]

\* atoms.calc_connect(): connectivity of the current positions, stored cutoff.
CalcConnect(o) == [o EXCEPT !.conn = [pos |-> o.pos, cutoff |-> o.cutoff]]

\* One use of an object's connectivity by a consumer needing cutoff `need`.
Use(by, o, need) ==
    [by |-> by, need |-> need, have |-> o.conn.cutoff,
     fresh |-> (o.conn.pos = o.pos)]

\* Potential.calculate: the potential sets its own cutoff on the atoms and
\* recomputes the connectivity before it evaluates.
Prepare(o) == CalcConnect(SetCutoff(o, PotCutoff(o.calc)))

\* get_potential_energy(): the energy is stored on the atoms object.
CalcEnergy(o) ==
    [Prepare(o) EXCEPT !.energy = [pot |-> o.calc, pos |-> o.pos]]

\* get_forces(): the forces are stored on the atoms object.
CalcForces(o) ==
    [Prepare(o) EXCEPT !.forces = [pot |-> o.calc, pos |-> o.pos]]

OracleUse(o) == Use(o.calc.file, Prepare(o), PotCutoff(o.calc))

Put(h, id, o) == [x \in (DOMAIN h) \cup {id} |-> IF x = id THEN o ELSE h[x]]

(***************************************************************************)
(* The dynamics engine and its observers                                   *)
(***************************************************************************)
NoDynamics == [nsteps |-> 0, observers |-> <<>>, atoms |-> 0]

\* dynamics.attach(function, interval): observers are kept in attach order.
Attach(d, fn, interval) ==
    [d EXCEPT !.observers = Append(@, [fn |-> fn, interval |-> interval])]

\* Langevin(atoms, timestep, T * units.kB, 0.002): a new engine at step 0.
Langevin(id) == [nsteps |-> 0, observers |-> <<>>, atoms |-> id]

\* The state an observer may touch; `err` stops the remaining observers.
World(h, dbv, steps, calls, uses, e) ==
    [heap |-> h, db |-> dbv, dbSteps |-> steps, calls |-> calls,
     uses |-> uses, err |-> e]

Called(w, fn, n) ==
    [w EXCEPT !.calls = Append(@, [fn |-> fn, nsteps |-> n,
                                   pos |-> w.heap[ATOMS].pos,
                                   vel |-> w.heap[ATOMS].vel])]

\* print_status(): reads dynamics.nsteps and the kinetic energy.
PrintStatus(w, n) == Called(w, "print_status", n)

\* print_energy(a=atoms): a.get_potential_energy() queries the oracle, which
\* may raise; a.get_kinetic_energy() only reads.
PrintEnergy(w, n, fail) ==
    LET o == w.heap[ATOMS]
        c == [Called(w, "print_energy", n) EXCEPT
                 !.uses = @ \cup {OracleUse(o)}]
    IN  IF fail
        THEN [c EXCEPT !.heap = Put(@, ATOMS, Prepare(o)),
                       !.err = "OracleError"]
        ELSE [c EXCEPT !.heap = Put(@, ATOMS, CalcEnergy(o))]

CollectDataAliasMutant(w, n) ==
    [Called(w, "collect_data", n) EXCEPT !.db = Append(@, ATOMS),
                                         !.dbSteps = Append(@, n)]

CollectDataPrependMutant(w, n) ==
    LET id == SnapBase + Len(w.db) + 1
        c  == Called(w, "collect_data", n)
    IN  [c EXCEPT !.heap = Put(@, id, CopyAtoms(w.heap[ATOMS])),
                  !.db = <<id>> \o @,
                  !.dbSteps = <<n>> \o @]

\* collect_data(): db.append(atoms.copy())
CollectData(w, n) ==
    LET id == SnapBase + Len(w.db) + 1
        c  == Called(w, "collect_data", n)
    IN  [c EXCEPT !.heap = Put(@, id, CopyAtoms(w.heap[ATOMS])),
                  !.db = Append(@, id),
                  !.dbSteps = Append(@, n)]

CallObserver(w, fn, n, fail) ==
    CASE fn = "print_status" -> PrintStatus(w, n)
      [] fn = "print_energy" -> PrintEnergy(w, n, fail)
      [] fn = "collect_data" -> CollectData(w, n)

Qualifies(ob, n) == n % ob.interval = 0

\* call_observers(): every observer whose interval divides nsteps is called,
\* in attach order; an exception leaves the loop.
RECURSIVE CallObservers(_, _, _, _, _)
CallObservers(w, obs, i, n, fail) ==
    IF i > Len(obs) \/ w.err # "none"
    THEN w
    ELSE CallObservers(
             IF Qualifies(obs[i], n) THEN CallObserver(w, obs[i].fn, n, fail)
                                     ELSE w,
             obs, i + 1, n, fail)

\* Langevin.step: the positions are advanced, the oracle gives the forces at
\* the new positions, then the momenta are completed.
StepPositions(o) == [o EXCEPT !.pos = @ + 1]
StepMomenta(o) == [o EXCEPT !.vel = @ + 1]

(***************************************************************************)
(* Initial states                                                          *)
(***************************************************************************)
NoRun == [start |-> 0, steps |-> 0]
NoRmse == [state |-> "unset", n |-> 0, natoms |-> 0]
EnergyLists == {"qm"} \cup GapFiles

\* The fitted-potential files of an earlier session of the notebook may lie
\* on disk; the tight-binding cutoff is whatever the parameter file says.
InitRest ==
    /\ err = "none"
    /\ a = 0
    /\ optatoms = 0
    /\ dynamics = NoDynamics
    /\ lastCalls = <<>>
    /\ run = NoRun
    /\ fitStatus = [f \in GapFiles |-> "notrun"]
    /\ energies = [l \in EnergyLists |-> <<>>]
    /\ Natoms = 0
    /\ rmse = [f \in GapFiles |-> NoRmse]
    /\ consumed = {}
    /\ optSteps = 0
    /\ E0 = 0
    /\ fitE0 = [f \in GapFiles |-> 0]

InitCommon ==
    /\ InitRest
    /\ slab = NoSlab
    /\ heap = <<>>
    /\ db = <<>>
    /\ dbSteps = <<>>
    /\ pots = [f \in GapFiles |-> NoCalc]

Init ==
    /\ InitCommon
    /\ pc = "build"
    /\ size = DefaultSize
    /\ vacuum = DefaultVacuum
    /\ \E left \in {"absent", "stale"} : files = [f \in GapFiles |-> left]
    /\ tbCutoff \in {300, 600}

(***************************************************************************)
(* Cells of part I: the slab, the first dynamics run, the descriptors      *)
(***************************************************************************)
RaiseContinueMutant(kind) == pc' = pc /\ err' = kind

\* An exception leaves the cell and stops the notebook.
Raise(kind) == pc' = "aborted" /\ err' = kind

\* atoms = build_slab()
Build ==
    /\ pc = "build"
    /\ slab' = BuildSlab(size, vacuum)
    /\ IF slab'.status = "built"
       THEN /\ heap' = Put(heap, ATOMS,
                           NewAtoms(Len(slab'.z), Cardinality(slab'.fixed)))
            /\ pc' = "setup_md"
            /\ err' = err
       ELSE /\ Raise(slab'.status)
            /\ heap' = heap
    /\ UNCHANGED <<size, vacuum, a, optatoms, db, dbSteps, dynamics, lastCalls,
                   run, files, fitStatus, pots, energies, Natoms, rmse,
                   consumed, tbCutoff, optSteps, E0, fitE0>>

Observers1OrderMutant ==
    Attach(Attach(Langevin(ATOMS), "print_energy", EnergyInterval),
           "print_status", StatusInterval)

\* dynamics = Langevin(atoms, ...); dynamics.attach(print_status, interval=10);
\* dynamics.attach(print_energy, interval=1)
Observers1 ==
    Attach(Attach(Langevin(ATOMS), "print_status", StatusInterval),
           "print_energy", EnergyInterval)

\* qm_pot = Potential('TB DFTB', ...); atoms.set_calculator(qm_pot);
\* MaxwellBoltzmannDistribution(atoms, ...); the engine and its observers.
SetupMD ==
    /\ pc = "setup_md"
    /\ \/ /\ heap' = Put(heap, ATOMS,
                         [heap[ATOMS] EXCEPT !.calc = TBPot, !.vel = @ + 1])
          /\ dynamics' = Observers1
          /\ pc' = "run1"
          /\ err' = err
       \/ /\ Raise("OracleError")
          /\ UNCHANGED <<heap, dynamics>>
    /\ UNCHANGED <<size, vacuum, slab, a, optatoms, db, dbSteps, lastCalls,
                   run, files, fitStatus, pots, energies, Natoms, rmse,
                   consumed, tbCutoff, optSteps, E0, fitE0>>

Runs == {[cell |-> "run1", loop |-> "run1_loop", steps |-> Steps1,
          next |-> "desc2b"],
         [cell |-> "run2", loop |-> "run2_loop", steps |-> Steps2,
          next |-> "write"],
         [cell |-> "run3", loop |-> "run3_loop", steps |-> Steps3,
          next |-> "opt"]}

Loops == {r.loop : r \in Runs}

RunCompleteNoCarryMutant(d, r) == d.nsteps >= r.steps

\* dynamics.run(steps=N) takes N steps from wherever the engine's count is.
RunComplete(d, r) == d.nsteps >= r.start + r.steps

\* dynamics.run(steps): the forces at the starting positions are asked first.
RunStart(r) ==
    /\ pc = r.cell
    /\ LET o == heap[ATOMS]
       IN  /\ consumed' = consumed \cup {OracleUse(o)}
           /\ \/ /\ heap' = Put(heap, ATOMS, CalcForces(o))
                 /\ pc' = r.loop
                 /\ err' = err
                 /\ run' = [start |-> dynamics.nsteps, steps |-> r.steps]
              \/ /\ heap' = Put(heap, ATOMS, Prepare(o))
                 /\ Raise("OracleError")
                 /\ run' = run
    /\ lastCalls' = <<>>
    /\ UNCHANGED <<size, vacuum, slab, a, optatoms, db, dbSteps, dynamics,
                   files, fitStatus, pots, energies, Natoms, rmse, tbCutoff,
                   optSteps, E0, fitE0>>

EnergyAsked(d, n) ==
    \E i \in 1..Len(d.observers) :
        d.observers[i].fn = "print_energy" /\ Qualifies(d.observers[i], n)

\* One pass of the loop of dynamics.run: step, count it, call the observers.
\* The oracle may fail on the forces or on the energy print_energy asks for.
RunStep(r) ==
    /\ pc = r.loop
    /\ ~RunComplete(dynamics, run)
    /\ LET moved == StepPositions(heap[ATOMS])
           n     == dynamics.nsteps + 1
           uses  == consumed \cup {OracleUse(moved)}
       IN  \/ \E failE \in BOOLEAN :
                 LET done == StepMomenta(CalcForces(moved))
                     w == CallObservers(
                              World(Put(heap, ATOMS, done), db, dbSteps, <<>>,
                                    uses, "none"),
                              dynamics.observers, 1, n, failE)
                 IN  /\ failE => EnergyAsked(dynamics, n)
                     /\ dynamics' = [dynamics EXCEPT !.nsteps = n]
                     /\ heap' = w.heap
                     /\ db' = w.db
                     /\ dbSteps' = w.dbSteps
                     /\ lastCalls' = w.calls
                     /\ consumed' = w.uses
                     /\ IF w.err = "none"
                        THEN pc' = pc /\ err' = err
                        ELSE Raise(w.err)
           \/ /\ heap' = Put(heap, ATOMS, Prepare(moved))
              /\ consumed' = uses
              /\ Raise("OracleError")
              /\ lastCalls' = <<>>
              /\ UNCHANGED <<dynamics, db, dbSteps>>
    /\ UNCHANGED <<size, vacuum, slab, a, optatoms, run, files, fitStatus,
                   pots, energies, Natoms, rmse, tbCutoff, optSteps, E0, fitE0>>

\* dynamics.run returns once the requested number of steps has been taken.
RunFinish(r) ==
    /\ pc = r.loop
    /\ RunComplete(dynamics, run)
    /\ pc' = r.next
    /\ UNCHANGED <<err, size, vacuum, slab, heap, a, optatoms, db, dbSteps,
                   dynamics, lastCalls, run, files, fitStatus, pots, energies,
                   Natoms, rmse, consumed, tbCutoff, optSteps, E0, fitE0>>

ConnectForNoCalcMutant(o, cutoff) == SetCutoff(o, cutoff)

\* atoms.set_cutoff(desc.cutoff()); atoms.calc_connect()
ConnectFor(o, cutoff) == CalcConnect(SetCutoff(o, cutoff))

\* A descriptor cell: the connectivity is prepared for the descriptor's
\* cutoff, then desc.count / desc.calc / desc.descriptor_sizes read it.
DescriptorCell(cell, name, cutoff, next) ==
    /\ pc = cell
    /\ LET o == ConnectFor(heap[ATOMS], cutoff)
       IN  /\ heap' = Put(heap, ATOMS, o)
           /\ consumed' = consumed \cup {Use(name, o, cutoff)}
    /\ pc' = next
    /\ UNCHANGED <<err, size, vacuum, slab, a, optatoms, db, dbSteps, dynamics,
                   lastCalls, run, files, fitStatus, pots, energies, Natoms,
                   rmse, tbCutoff, optSteps, E0, fitE0>>

\* desc = Descriptor("distance_Nb order=2 cutoff=4.0 ...")
Desc2b == DescriptorCell("desc2b", "distance_Nb", Desc2bCutoff, "soap")

\* desc = Descriptor("soap cutoff=4 ...")
DescSoap == DescriptorCell("soap", "soap", SoapCutoff, "collect")

AttachCollectNewEngineMutant ==
    /\ pc = "collect"
    /\ db' = <<>>
    /\ dbSteps' = <<>>
    /\ dynamics' = Attach(Observers1, "collect_data", CollectInterval)
    /\ pc' = "run2"
    /\ UNCHANGED <<err, size, vacuum, slab, heap, a, optatoms, lastCalls, run,
                   files, fitStatus, pots, energies, Natoms, rmse, consumed,
                   tbCutoff, optSteps, E0, fitE0>>

AttachCollectFirstMutant ==
    /\ pc = "collect"
    /\ db' = <<>>
    /\ dbSteps' = <<>>
    /\ dynamics' = [dynamics EXCEPT !.observers =
                        <<[fn |-> "collect_data", interval |-> CollectInterval]>> \o @]
    /\ pc' = "run2"
    /\ UNCHANGED <<err, size, vacuum, slab, heap, a, optatoms, lastCalls, run,
                   files, fitStatus, pots, energies, Natoms, rmse, consumed,
                   tbCutoff, optSteps, E0, fitE0>>

\* db = []; dynamics.attach(collect_data, interval=10)
AttachCollect ==
    /\ pc = "collect"
    /\ db' = <<>>
    /\ dbSteps' = <<>>
    /\ dynamics' = Attach(dynamics, "collect_data", CollectInterval)
    /\ pc' = "run2"
    /\ UNCHANGED <<err, size, vacuum, slab, heap, a, optatoms, lastCalls, run,
                   files, fitStatus, pots, energies, Natoms, rmse, consumed,
                   tbCutoff, optSteps, E0, fitE0>>

(***************************************************************************)
(* Cells of part II: the database, the fits and the comparisons            *)
(***************************************************************************)
\* write("tmp.xyz", db)
WriteDb ==
    /\ pc = "write"
    /\ pc' = "e0"
    /\ UNCHANGED <<err, size, vacuum, slab, heap, a, optatoms, db, dbSteps,
                   dynamics, lastCalls, run, files, fitStatus, pots, energies,
                   Natoms, rmse, consumed, tbCutoff, optSteps, E0, fitE0>>

\* The values isolated_atom.get_potential_energy() can return (in 1e-6 eV):
\* the tight-binding energy of one Si atom is whatever the parameters read
\* from params.xml give, the value written in the fitting cells or another.
IsolatedEnergies == {E0Literal, E0Literal + 1000000}

\* isolated_atom = aseAtoms("Si", ...); isolated_atom.set_calculator(qm_pot);
\* E0 = isolated_atom.get_potential_energy()
IsolatedAtom ==
    /\ pc = "e0"
    /\ LET o == [NewAtoms(1, 0) EXCEPT !.calc = TBPot]
       IN  /\ consumed' = consumed \cup {OracleUse(o)}
           /\ \/ /\ heap' = Put(heap, ISOLATED, CalcEnergy(o))
                 /\ E0' \in IsolatedEnergies
                 /\ pc' = "fit2b"
                 /\ err' = err
              \/ /\ heap' = Put(heap, ISOLATED, Prepare(o))
                 /\ E0' = E0
                 /\ Raise("OracleError")
    /\ UNCHANGED <<size, vacuum, slab, a, optatoms, db, dbSteps, dynamics,
                   lastCalls, run, files, fitStatus, pots, energies, Natoms,
                   rmse, tbCutoff, optSteps, fitE0>>

Fits == {[cell |-> "fit2b", file |-> Gap2bFile, load |-> "load2b",
          eval |-> "eval2b", cmp |-> "natoms", next |-> "fit3b"],
         [cell |-> "fit3b", file |-> Gap3bFile, load |-> "load3b",
          eval |-> "eval3b", cmp |-> "rmse3b", next |-> "fitsoap"],
         [cell |-> "fitsoap", file |-> GapSoapFile, load |-> "loadsoap",
          eval |-> "evalsoap", cmp |-> "rmsesoap", next |-> "setup_md2"]}

\* !teach_sparse ... gp_file=<file>: the command writes the potential file,
\* or fails and leaves the file as it was or half written.  The shell escape
\* does not look at the exit status: the notebook goes on to the next cell.
TeachSparse(f) ==
    /\ pc = f.cell
    /\ fitE0' = [fitE0 EXCEPT ![f.file] = E0Literal]
    /\ \/ /\ files' = [files EXCEPT ![f.file] = "fresh"]
          /\ fitStatus' = [fitStatus EXCEPT ![f.file] = "ok"]
       \/ /\ \E left \in {files[f.file], "unreadable"} :
                 files' = [files EXCEPT ![f.file] = left]
          /\ fitStatus' = [fitStatus EXCEPT ![f.file] = "failed"]
    /\ pc' = f.load
    /\ UNCHANGED <<err, size, vacuum, slab, heap, a, optatoms, db, dbSteps,
                   dynamics, lastCalls, run, pots, energies, Natoms, rmse,
                   consumed, tbCutoff, optSteps, E0>>

\* gap = Potential(param_filename=<file>): raises when the file is missing
\* or cannot be parsed, and loads whatever readable content is there.
LoadPotential(f) ==
    /\ pc = f.load
    /\ IF files[f.file] \in {"fresh", "stale"}
       THEN /\ pots' = [pots EXCEPT ![f.file] = GapPot(f.file, files[f.file])]
            /\ pc' = IF f.file = Gap2bFile THEN "qm" ELSE f.eval
            /\ err' = err
       ELSE /\ Raise("RuntimeError")
            /\ pots' = pots
    /\ UNCHANGED <<size, vacuum, slab, heap, a, optatoms, db, dbSteps,
                   dynamics, lastCalls, run, files, fitStatus, energies,
                   Natoms, rmse, consumed, tbCutoff, optSteps, E0, fitE0>>

\* qm_energies = [dba.energy for dba in db]
QmEnergies ==
    /\ pc = "qm"
    /\ IF \E i \in 1..Len(db) : heap[db[i]].energy = NoEnergy
       THEN /\ Raise("AttributeError")
            /\ energies' = energies
       ELSE /\ energies' = [energies EXCEPT
                               !["qm"] = [i \in 1..Len(db) |-> heap[db[i]].energy]]
            /\ pc' = "eval2b"
            /\ err' = err
    /\ UNCHANGED <<size, vacuum, slab, heap, a, optatoms, db, dbSteps,
                   dynamics, lastCalls, run, files, fitStatus, pots, Natoms,
                   rmse, consumed, tbCutoff, optSteps, E0, fitE0>>

EvalTargetAliasMutant(h, dba, id) == [id |-> dba, heap |-> h]

\* a = dba.copy(): a new object, bound to the name `a`.
EvalTarget(h, dba, id) == [id |-> id, heap |-> Put(h, id, CopyAtoms(h[dba]))]

\* One pass of: for dba in db: a = dba.copy(); a.set_calculator(gap);
\* energies.append(a.get_potential_energy())
EvalStep(f) ==
    /\ pc = f.eval
    /\ Len(energies[f.file]) < Len(db)
    /\ LET i == Len(energies[f.file]) + 1
           t == EvalTarget(heap, db[i], EvalBase + i)
           o == [t.heap[t.id] EXCEPT !.calc = pots[f.file]]
       IN  /\ a' = t.id
           /\ consumed' = consumed \cup {OracleUse(o)}
           /\ \/ /\ heap' = Put(t.heap, t.id, CalcEnergy(o))
                 /\ energies' = [energies EXCEPT
                                    ![f.file] = Append(@, CalcEnergy(o).energy)]
                 /\ pc' = pc
                 /\ err' = err
              \/ /\ heap' = Put(t.heap, t.id, Prepare(o))
                 /\ energies' = energies
                 /\ Raise("OracleError")
    /\ UNCHANGED <<size, vacuum, slab, optatoms, db, dbSteps, dynamics,
                   lastCalls, run, files, fitStatus, pots, Natoms, rmse,
                   tbCutoff, optSteps, E0, fitE0>>

\* The loop over db is exhausted.
EvalFinish(f) ==
    /\ pc = f.eval
    /\ Len(energies[f.file]) >= Len(db)
    /\ pc' = f.cmp
    /\ UNCHANGED <<err, size, vacuum, slab, heap, a, optatoms, db, dbSteps,
                   dynamics, lastCalls, run, files, fitStatus, pots, energies,
                   Natoms, rmse, consumed, tbCutoff, optSteps, E0, fitE0>>

NatomsOfLiveMutant(dbv, h) == [err |-> "none", n |-> h[ATOMS].n]

\* Natoms = len(db[0]): indexing an empty list raises IndexError.
NatomsOf(dbv, h) ==
    IF Len(dbv) = 0 THEN [err |-> "IndexError", n |-> 0]
                    ELSE [err |-> "none", n |-> h[dbv[1]].n]

\* Natoms = len(db[0]) (and the scatter plot of the two energy lists)
NatomsCell ==
    /\ pc = "natoms"
    /\ LET r == NatomsOf(db, heap)
       IN  IF r.err = "none"
           THEN /\ Natoms' = r.n
                /\ pc' = "rmse2b"
                /\ err' = err
           ELSE /\ Raise(r.err)
                /\ Natoms' = Natoms
    /\ UNCHANGED <<size, vacuum, slab, heap, a, optatoms, db, dbSteps,
                   dynamics, lastCalls, run, files, fitStatus, pots, energies,
                   rmse, consumed, tbCutoff, optSteps, E0, fitE0>>

\* np.sqrt(sum((qm/Natoms - gap/Natoms)**2) / len(gap)): the outcomes the
\* expression can have.  With empty lists the sum is 0 and the division is
\* 0/0, which raises for Python numbers and gives nan for numpy's.
RmseOutcomes(qm, gap, natoms) ==
    IF natoms = 0
    THEN {[state |-> "NameError", n |-> Len(gap), natoms |-> natoms]}
    ELSE IF Len(qm) # Len(gap)
    THEN {[state |-> "ValueError", n |-> Len(gap), natoms |-> natoms]}
    ELSE IF Len(gap) = 0
    THEN {[state |-> "ZeroDivisionError", n |-> 0, natoms |-> natoms],
          [state |-> "nan", n |-> 0, natoms |-> natoms]}
    ELSE {[state |-> "value", n |-> Len(gap), natoms |-> natoms]}

IsError(state) == state \in {"NameError", "ZeroDivisionError", "ValueError"}

\* The RMSE expression of one fitted potential.
RmseCell(f) ==
    /\ pc = (IF f.file = Gap2bFile THEN "rmse2b" ELSE f.cmp)
    /\ \E r \in RmseOutcomes(energies["qm"], energies[f.file], Natoms) :
          /\ rmse' = [rmse EXCEPT ![f.file] = r]
          /\ IF IsError(r.state) THEN Raise(r.state)
                                 ELSE pc' = f.next /\ err' = err
    /\ UNCHANGED <<size, vacuum, slab, heap, a, optatoms, db, dbSteps,
                   dynamics, lastCalls, run, files, fitStatus, pots, energies,
                   Natoms, consumed, tbCutoff, optSteps, E0, fitE0>>

(***************************************************************************)
(* Cells of part III: dynamics and optimisation with the fitted potential  *)
(***************************************************************************)
OPTATOMS == 3
OptPosBase == 10000

Observers2ReuseMutant == dynamics

\* dynamics = Langevin(atoms, ...); dynamics.attach(print_status, interval=10);
\* dynamics.attach(print_energy, interval=10)
Observers2 ==
    Attach(Attach(Langevin(ATOMS), "print_status", StatusInterval),
           "print_energy", EnergyInterval2)

\* atoms.set_calculator(gap_soap) and a new engine with its two observers.
SetupMD2 ==
    /\ pc = "setup_md2"
    /\ heap' = Put(heap, ATOMS, [heap[ATOMS] EXCEPT !.calc = pots[GapSoapFile]])
    /\ dynamics' = Observers2
    /\ pc' = "run3"
    /\ UNCHANGED <<err, size, vacuum, slab, a, optatoms, db, dbSteps,
                   lastCalls, run, files, fitStatus, pots, energies, Natoms,
                   rmse, consumed, tbCutoff, optSteps, E0, fitE0>>

OptTargetAliasMutant(h, dbv) == [id |-> dbv[1], heap |-> h]

\* optatoms = db[0].copy()
OptTarget(h, dbv) ==
    [id |-> OPTATOMS, heap |-> Put(h, OPTATOMS, CopyAtoms(h[dbv[1]]))]

\* optatoms = db[0].copy(); optatoms.set_calculator(gap_soap);
\* opt = PreconLBFGS(optatoms, precon=Exp(3.0))
SetupOpt ==
    /\ pc = "opt"
    /\ IF Len(db) = 0
       THEN /\ Raise("IndexError")
            /\ UNCHANGED <<heap, optatoms>>
       ELSE LET t == OptTarget(heap, db)
            IN  /\ optatoms' = t.id
                /\ heap' = Put(t.heap, t.id,
                               [t.heap[t.id] EXCEPT !.calc = pots[GapSoapFile]])
                /\ pc' = "opt_loop"
                /\ err' = err
    /\ optSteps' = 0
    /\ UNCHANGED <<size, vacuum, slab, a, db, dbSteps, dynamics, lastCalls,
                   run, files, fitStatus, pots, energies, Natoms, rmse,
                   consumed, tbCutoff, E0, fitE0>>

\* One pass of opt.run(fmax=0.01): the forces are asked; the optimiser
\* stops when they are below fmax and moves the atoms otherwise.
OptStep ==
    /\ pc = "opt_loop"
    /\ LET o == heap[optatoms]
           f == CalcForces(o)
       IN  /\ consumed' = consumed \cup {OracleUse(o)}
           /\ \/ /\ heap' = Put(heap, optatoms, f)
                 /\ pc' = "done"
                 /\ err' = err
                 /\ optSteps' = optSteps
              \/ /\ optSteps < MaxOptSteps
                 /\ heap' = Put(heap, optatoms,
                                [f EXCEPT !.pos = OptPosBase + optSteps + 1])
                 /\ pc' = pc
                 /\ err' = err
                 /\ optSteps' = optSteps + 1
              \/ /\ heap' = Put(heap, optatoms, Prepare(o))
                 /\ Raise("OracleError")
                 /\ optSteps' = optSteps
    /\ UNCHANGED <<size, vacuum, slab, a, optatoms, db, dbSteps, dynamics,
                   lastCalls, run, files, fitStatus, pots, energies, Natoms,
                   rmse, tbCutoff, E0, fitE0>>

(***************************************************************************)
(* Specifications                                                          *)
(***************************************************************************)
Next ==
    \/ Build
    \/ SetupMD
    \/ \E r \in Runs : RunStart(r)
    \/ \E r \in Runs : RunStep(r)
    \/ \E r \in Runs : RunFinish(r)
    \/ Desc2b
    \/ DescSoap
    \/ AttachCollect
    \/ WriteDb
    \/ IsolatedAtom
    \/ \E f \in Fits : TeachSparse(f)
    \/ \E f \in Fits : LoadPotential(f)
    \/ QmEnergies
    \/ \E f \in Fits : EvalStep(f)
    \/ \E f \in Fits : EvalFinish(f)
    \/ NatomsCell
    \/ \E f \in Fits : RmseCell(f)
    \/ SetupMD2
    \/ SetupOpt
    \/ OptStep

\* The notebook run from top to bottom with the default slab.
Spec == Init /\ [][Next]_vars

\* build_slab applied to any size and vacuum in the bounded ranges.
InitBuild ==
    /\ InitCommon
    /\ pc = "build"
    /\ size \in (-1..MaxSize) \X (-1..MaxSize) \X (-1..MaxSize)
    /\ vacuum \in {-500, 0, DefaultVacuum}
    /\ files = [f \in GapFiles |-> "absent"]
    /\ tbCutoff = 600

NextBuild == Build

SpecBuild == InitBuild /\ [][NextBuild]_vars

\* The 2-body evaluation and comparison applied to any database of at most
\* MaxCmpDb snapshots of the slab, taken at increasing steps of the run, each
\* with its reference energy stored.
CmpPositions == {110, 120, 130, 140, 150}

Fit2b == CHOOSE f \in Fits : f.file = Gap2bFile

InitCompare ==
    /\ InitRest
    /\ pc = "qm"
    /\ size = DefaultSize
    /\ vacuum = DefaultVacuum
    /\ slab = BuildSlab(DefaultSize, DefaultVacuum)
    /\ tbCutoff = 600
    /\ \E content \in {"fresh", "stale"} :
          /\ files = [f \in GapFiles |->
                         IF f = Gap2bFile THEN content ELSE "absent"]
          /\ pots = [f \in GapFiles |->
                        IF f = Gap2bFile THEN GapPot(f, content) ELSE NoCalc]
    /\ \E k \in 0..MaxCmpDb :
          \E ps \in [1..k -> CmpPositions] :
             /\ \A i \in 1..k : \A j \in 1..k : i < j => ps[i] < ps[j]
             /\ db = [i \in 1..k |-> SnapBase + i]
             /\ dbSteps = ps
             /\ heap = [id \in {ATOMS} \cup {SnapBase + i : i \in 1..k} |->
                          LET live == [NewAtoms(Len(slab.z), Cardinality(slab.fixed))
                                          EXCEPT !.calc = TBPot]
                              p == IF id = ATOMS THEN 600 ELSE ps[id - SnapBase]
                              o == CalcEnergy([live EXCEPT !.pos = p, !.vel = p + 1])
                          IN  IF id = ATOMS THEN o ELSE CopyAtoms(o)]

NextCompare ==
    \/ QmEnergies
    \/ EvalStep(Fit2b)
    \/ EvalFinish(Fit2b)
    \/ NatomsCell
    \/ RmseCell(Fit2b)

SpecCompare == InitCompare /\ [][NextCompare]_vars

(***************************************************************************)
(* Properties                                                              *)
(***************************************************************************)
IsPrefix(s, t) == Len(s) <= Len(t) /\ \A i \in 1..Len(s) : s[i] = t[i]

Live == heap[ATOMS]

\* The call an observer makes at step n, seeing the updated configuration.
CallAt(fn, n, o) == [fn |-> fn, nsteps |-> n, pos |-> o.pos, vel |-> o.vel]

\* The calls the claim expects at step n of the run whose loop is `loop`,
\* made on a configuration that is one update past `before`.
ExpectedCalls(loop, n, before) ==
    LET o == [pos |-> before.pos + 1, vel |-> before.vel + 1]
        status == IF n % 10 = 0 THEN <<CallAt("print_status", n, o)>> ELSE <<>>
        energy1 == <<CallAt("print_energy", n, o)>>
        energy10 == IF n % 10 = 0 THEN <<CallAt("print_energy", n, o)>> ELSE <<>>
        collect == IF n % 10 = 0 THEN <<CallAt("collect_data", n, o)>> ELSE <<>>
    IN  CASE loop = "run1_loop" -> status \o energy1
          [] loop = "run2_loop" -> status \o energy1 \o collect
          [] loop = "run3_loop" -> status \o energy10

\* C1: at every completed step of a dynamics run the observers whose interval
\* divides the new step count are each called exactly once, after the
\* position and velocity update of that step, in the order they were attached
\* (print_status, print_energy, collect_data), and no other observer is called.
C1_ObserversInOrder ==
    [][(pc \in Loops /\ dynamics'.nsteps = dynamics.nsteps + 1 /\ err' = "none")
        => lastCalls' = ExpectedCalls(pc, dynamics'.nsteps, Live)]_vars

C1_Witness ==
    /\ pc = "run2_loop"
    /\ dynamics.nsteps = 110
    /\ Len(lastCalls) = 3
    /\ lastCalls[3].fn = "collect_data"

\* C2: a snapshot appended to db never changes afterwards: its species,
\* positions, velocities and stored energy are the same after every step of
\* the notebook (dynamics, evaluation with a fitted potential, optimisation).
C2_SnapshotsNeverChange ==
    [][\A i \in 1..Len(db) :
          /\ db[i] \in DOMAIN heap'
          /\ Content(heap'[db[i]]) = Content(heap[db[i]])]_vars

C2_Witness ==
    /\ pc = "done"
    /\ Len(db) = 50
    /\ optSteps > 0
    /\ heap[optatoms].pos # heap[db[1]].pos
    /\ heap[a].energy.pot.file = GapSoapFile
    /\ Live.pos # heap[db[50]].pos

\* C3: during a dynamics run db only grows at its end (what it held stays
\* where it was), and its snapshots are in order of strictly increasing step
\* count.
C3_GrowStep ==
    pc \in Loops => (IsPrefix(db, db') /\ IsPrefix(dbSteps, dbSteps'))

C3_Grows == [][C3_GrowStep]_vars

C3_Ordered ==
    /\ Len(dbSteps) = Len(db)
    /\ \A i \in 1..Len(db) : \A j \in 1..Len(db) :
          i < j => (dbSteps[i] < dbSteps[j] /\ db[i] # db[j])

C3_AppendOnly == C3_Grows /\ []C3_Ordered

C3_Witness == pc = "run2_loop" /\ Len(db) = 3 /\ dbSteps = <<110, 120, 130>>

\* C4: in every configuration build_slab returns, the fixed atoms are exactly
\* the atoms whose z coordinate is less than 2.0 above the lowest one, also
\* after the vacuum was added.
C4_FixedIsBottomBand ==
    slab.status = "built" =>
        \A i \in DOMAIN slab.z :
            i \in slab.fixed <=>
                \A j \in DOMAIN slab.z : slab.z[i] - slab.z[j] < 200

C4_Witness ==
    /\ slab.status = "built"
    /\ size = <<1, 2, 2>>
    /\ Len(slab.z) = 32
    /\ Cardinality(slab.fixed) = 8
    /\ slab.cellz = 2088

\* C5: when the oracle fails during a step of a dynamics run the notebook
\* stops with the oracle's error: the positions stay advanced (no rollback),
\* db keeps its snapshots and gets no new one, no observer after the failing
\* one is called, and nothing at all happens once an error is raised.
C5_OracleFailureAborts ==
    [][/\ (pc \in Loops /\ err' # "none") =>
            /\ err' = "OracleError"
            /\ pc' = "aborted"
            /\ db' = db
            /\ \A i \in 1..Len(db) : heap'[db[i]] = heap[db[i]]
            /\ heap'[ATOMS].pos = Live.pos + 1
            /\ dynamics'.nsteps \in {dynamics.nsteps, dynamics.nsteps + 1}
            /\ \A i \in 1..Len(lastCalls') :
                  /\ lastCalls'[i].fn # "collect_data"
                  /\ lastCalls'[i].fn = "print_energy" => i = Len(lastCalls')
       /\ err = "none"]_vars

C5_Witness ==
    /\ pc = "aborted"
    /\ err = "OracleError"
    /\ dynamics.nsteps = 120
    /\ Len(db) = 1
    /\ Live.pos = 120
    /\ Len(lastCalls) = 2

\* C6: a failed teach_sparse surfaces as FitterFailure: once a fit has
\* failed the notebook has stopped with that error, and the potential file of
\* that fit is neither loaded nor evaluated on the database.
C6_FitterFailureSurfaces ==
    \A f \in GapFiles :
        fitStatus[f] = "failed" =>
            /\ err = "FitterFailure"
            /\ pots[f] = NoCalc
            /\ energies[f] = <<>>

BadGeometry == (\E d \in 1..3 : size[d] <= 0) \/ vacuum <= 0

\* C8: build_slab called with a non-positive size component or a non-positive
\* vacuum fails with InvalidGeometry and returns no configuration.
C8_InvalidGeometry ==
    (pc # "build" /\ BadGeometry) =>
        (err = "InvalidGeometry" /\ slab.status # "built")

CompareOver == pc \notin {"qm", "eval2b", "natoms", "rmse2b"}

C10_CountIsRunLength ==
    \A r \in Runs : pc = r.next => dynamics.nsteps = r.steps

\* Steps the run in progress still has to take.
Remaining == run.start + run.steps - dynamics.nsteps

\* The loop of the run in progress can take a step or return.
RunGoesOn == \E r \in Runs : RunStep(r) \/ RunFinish(r)

C10_Progress ==
    pc \in Loops =>
        /\ pc' = pc => Remaining' < Remaining
        /\ pc' \in {pc, "aborted"} \cup {r.next : r \in Runs}

C10_Bounded ==
    /\ pc \in Loops => (Remaining >= 0 /\ ENABLED RunGoesOn)
    /\ (pc = "desc2b" /\ err = "none") => dynamics.nsteps = 100
    /\ (pc = "write" /\ err = "none") => dynamics.nsteps = 600
    /\ (pc = "opt" /\ err = "none") => dynamics.nsteps = 100
    /\ \A r \in Runs : pc = r.next => dynamics.nsteps = run.start + r.steps

\* C10: every dynamics run whose oracle does not fail returns, and it returns
\* when it has taken the requested number of steps, counted from the engine's
\* step count at the start of the run: at 100, at 600 and at 100.  (While a
\* run is in progress a step is always possible, the number of steps left is
\* never negative, and every step that stays in the run lowers it.)
C10_RunsTerminate == [][C10_Progress]_vars /\ []C10_Bounded

C10_Witness ==
    /\ pc = "write"
    /\ run = [start |-> 100, steps |-> 500]
    /\ dynamics.nsteps = 600

\* C11: the number of atoms is fixed when the slab is built, 8 per replicated
\* cell and 32 for the default size, and never changes: the live
\* configuration, every snapshot of db and every copy made of one have 32
\* atoms in every state, and Natoms, once bound, is the atom count of every
\* snapshot.
C11_AtomCountFixed ==
    /\ slab.status = "built" => Len(slab.z) = 8 * size[1] * size[2] * size[3]
    /\ \A id \in DOMAIN heap : id # ISOLATED => heap[id].n = 32
    /\ \A i \in 1..Len(db) : heap[db[i]].n = heap[ATOMS].n
    /\ Natoms \in {0, 32}
    /\ Natoms # 0 => \A i \in 1..Len(db) : heap[db[i]].n = Natoms

C11_Witness ==
    /\ pc = "done"
    /\ Natoms = 32
    /\ Len(db) = 50
    /\ heap[ATOMS].n = 32
    /\ heap[db[50]].n = 32
    /\ heap[optatoms].n = 32

\* The snapshots the claim expects after the engine has counted n steps of
\* the collection run: one at every multiple of 10 above 100.
ExpectedSteps(n) == [i \in 1..((n \div 10) - 10) |-> 100 + 10 * i]

\* C12: the engine's step count carries over from the 100-step run into the
\* 500-step collection run, collect_data fires exactly at the cumulative
\* counts divisible by 10, and after the run db holds exactly 50 snapshots,
\* taken at 110, 120, ..., 600: none at 100, where the run started.
C12_CollectedSteps ==
    /\ pc = "run2" => (dynamics.nsteps = 100 /\ db = <<>>)
    /\ pc = "run2_loop" =>
          /\ run.start = 100
          /\ dbSteps = ExpectedSteps(dynamics.nsteps)
          /\ Len(db) = Len(dbSteps)
    /\ pc = "write" =>
          /\ dynamics.nsteps = 600
          /\ Len(db) = 50
          /\ dbSteps = [i \in 1..50 |-> 100 + 10 * i]

C12_Witness ==
    /\ pc = "write"
    /\ Len(db) = 50
    /\ dbSteps[1] = 110
    /\ dbSteps[50] = 600
    /\ dynamics.nsteps = 600

\* The energy the tight-binding oracle gives for the positions of object o.
ReferenceOf(o) == [pot |-> TBPot, pos |-> o.pos]

\* C14: every snapshot of db carries the energy the quantum oracle computed
\* for exactly the positions of that snapshot, which are those reached at the
\* step it was collected at, and qm_energies[i] is that energy of db[i].
C14_ReferenceEnergies ==
    /\ \A i \in 1..Len(db) :
          /\ heap[db[i]].energy = ReferenceOf(heap[db[i]])
          /\ heap[db[i]].pos = dbSteps[i]
    /\ energies["qm"] # <<>> =>
          /\ Len(energies["qm"]) = Len(db)
          /\ \A i \in 1..Len(db) : energies["qm"][i] = ReferenceOf(heap[db[i]])

C14_Witness ==
    /\ pc = "eval2b"
    /\ Len(energies["qm"]) = 50
    /\ energies["qm"][1] = [pot |-> TBPot, pos |-> 110]
    /\ energies["qm"][50] = [pot |-> TBPot, pos |-> 600]

ValidationCells == {"setup_md2", "run3", "run3_loop", "opt", "opt_loop"}

C15_Frame ==
    pc \in ValidationCells =>
        /\ db' = db
        /\ dbSteps' = dbSteps
        /\ energies' = energies
        /\ \A i \in 1..Len(db) : heap'[db[i]] = heap[db[i]]
        /\ pc \in {"run3", "run3_loop"} =>
              \A k \in 1..Len(lastCalls') : lastCalls'[k].fn # "collect_data"

C15_NewEngine ==
    /\ pc \in {"run3", "run3_loop"} =>
          /\ [k \in 1..Len(dynamics.observers) |-> dynamics.observers[k].fn]
                = <<"print_status", "print_energy">>
          /\ dynamics.atoms = ATOMS
    /\ pc = "run3" => dynamics.nsteps = 0
    /\ pc = "run3_loop" => run.start = 0

\* C15: the dynamics run with the fitted potential is made on a new engine,
\* whose step count starts at 0 and which has only print_status and
\* print_energy attached: collect_data is not called during that run, and
\* neither that run nor the geometry optimisation changes db, its snapshots
\* or the reference energies.
C15_ValidationLeavesDb == [][C15_Frame]_vars /\ []C15_NewEngine

C15_Witness ==
    /\ pc = "done"
    /\ Len(db) = 50
    /\ Len(energies["qm"]) = 50
    /\ dynamics.nsteps = 100
    /\ Len(lastCalls) = 2
    /\ heap[ATOMS].pos = 700
    /\ optSteps > 0

FitsRun == {f \in GapFiles : fitStatus[f] # "notrun"}

\* C13: the offset e0 given to each of the three teach_sparse invocations is
\* the isolated-atom energy E0 the quantum oracle computed, and it is the same
\* value in all three invocations.
C13_OffsetIsE0 ==
    /\ \A f \in FitsRun : fitE0[f] = E0
    /\ \A f, g \in FitsRun : fitE0[f] = fitE0[g]
====
